---- MODULE Spec2Model ----
(***************************************************************************)
(* Model of the voting program, examples/lockup/programs/voting/src/lib.rs *)
(*                                                                         *)
(* One governor with its poll queue and its proposal queue, a set of poll  *)
(* and proposal accounts, the poll vote receipts (one derived address per  *)
(* member and poll) and the clock.  Every instruction is one action; an    *)
(* instruction that returns an error leaves every account as it was (the   *)
(* host ledger applies a transaction wholly or not at all) and only the    *)
(* record of the last call, `last`, tells what it returned.                *)
(*                                                                         *)
(* Left out: message texts, vault and nonce fields, start_ts, the token    *)
(* deposit (an external transfer) and update_governor, which needs the     *)
(* signature of the governor's derived signer and so can only run inside   *)
(* a replayed proposal transaction.  Token amounts, vote weights and       *)
(* lamports keep their 64 bits (four 16-bit limbs); the queue cursors and  *)
(* the proposal tallies are plain integers: within the bounds below they   *)
(* stay far from the u32 and u64 limits of the program.                    *)
(***************************************************************************)
EXTENDS Integers, Sequences, FiniteSets, Bags, TLC

\* ---------------------------------------------------------------- bounds
MaxTime == 3
MaxQLen == 3
MaxPolls == 3
MaxProposals == 2
MaxOptions == 1
MaxVotes == 5
MaxMembers == 2
MaxVotePolls == 2
MaxAccepted == 2

PollIds == 1..MaxPolls
\* the polls of the voting specification
VotePollIds == 1..MaxVotePolls
ProposalIds == 1..MaxProposals
Members == 1..MaxMembers

\* Pubkey::default(), the content of a slot that was never written
DefaultKey == 0
\* remaining_accounts is empty: no tail account was supplied
None == -1

\* ---------------------------------------------------------------- u64
\* A u64 is the sequence of its four 16-bit limbs, least significant first.
LimbBase == 256 * 256

U64Limbs == 4

\* the u64 of a number below 2^31
U64(n) == <<n % LimbBase, n \div LimbBase, 0, 0>>

\* u64::MAX
U64Max == [i \in 1..U64Limbs |-> LimbBase - 1]

\* 2^63
U64Top == [i \in 1..U64Limbs |-> IF i = U64Limbs THEN LimbBase \div 2 ELSE 0]

\* a + b + carry limb by limb; the result has one limb more, the carry out
RECURSIVE AddCarry(_, _, _)
AddCarry(a, b, carry) ==
    IF a = <<>> THEN <<carry>>
    ELSE LET s == Head(a) + Head(b) + carry
         IN <<s % LimbBase>> \o AddCarry(Tail(a), Tail(b), s \div LimbBase)

\* a + b exceeds u64::MAX
overflows(a, b) == AddCarry(a, b, 0)[U64Limbs + 1] # 0

\* u64::wrapping_add, what `+` and `+=` compute when the build has no
\* overflow checks
wrapping_add(a, b) == SubSeq(AddCarry(a, b, 0), 1, U64Limbs)

\* ---------------------------------------------------------------- state
VARIABLES
    now,         \* clock.unix_timestamp
    governor,    \* the Governor account
    poll_q,      \* GovQueue of polls
    proposal_q,  \* GovQueue of proposals
    polls,       \* Poll accounts
    proposals,   \* Proposal accounts
    votes,       \* Vote accounts of polls, at the address derived from (member, poll)
    stake,       \* registry: the pool token balances of each member
    accepted,    \* history: number of vote_poll calls that succeeded, per (member, poll)
    pvoters,     \* history: the members whose vote_proposal succeeded, per proposal
    ballots,     \* history: the bag of accepted poll votes <<selector, spt, spt_locked>>, per poll
    replays,     \* history: number of execute_transaction calls, per proposal
    last         \* the last instruction: what it was called with and what it returned

vars == <<now, governor, poll_q, proposal_q, polls, proposals, votes, stake, accepted, pvoters,
          ballots, replays, last>>

\* ---------------------------------------------------------------- GovQueue
EmptyQueue == [head |-> 0, tail |-> 0, proposals |-> <<>>]

\* Vec::resize(q_len, Default::default()) on the empty vector
Resize(q, q_len) == [q EXCEPT !.proposals = [i \in 1..q_len |-> DefaultKey]]

capacity(q) == Len(q.proposals)

\* counter as usize % self.capacity(); only evaluated when capacity(q) > 0
\* (the remainder by zero panics, see append_if_free)
index_of(q, counter) == counter % capacity(q)

\* mutant: the queue counts as full one entry early
is_full_early(q) == index_of(q, q.head + 2) = index_of(q, q.tail)

is_full(q) == index_of(q, q.head + 1) = index_of(q, q.tail)

get_tail(q) == q.proposals[(q.tail % capacity(q)) + 1]

\* the three statements after the eviction: write at index_of(head), head += 1
Insert(q, proposal) ==
    [q EXCEPT !.proposals[index_of(q, q.head) + 1] = proposal,
              !.head = q.head + 1]

\* mutant: the tail is advanced before the supplied entry is found burned
append_if_free_early(q, proposal, tail, tailBurned) ==
    IF capacity(q) = 0
    THEN [err |-> "Panic", q |-> q, cursor |-> q.head]
    ELSE IF is_full(q)
    THEN IF tail = None
         THEN [err |-> "TailProposalNotProvided", q |-> q, cursor |-> q.head]
         ELSE IF get_tail(q) # tail
         THEN [err |-> "InvalidTailProposal", q |-> q, cursor |-> q.head]
         ELSE IF ~tailBurned
         THEN [err |-> "ProposalNotBurned", q |-> [q EXCEPT !.tail = q.tail + 1],
               cursor |-> q.head]
         ELSE [err |-> "Ok",
               q |-> Insert([q EXCEPT !.tail = q.tail + 1], proposal),
               cursor |-> q.head]
    ELSE [err |-> "Ok", q |-> Insert(q, proposal), cursor |-> q.head]

\* mutant: the supplied entry is tested for burned before its key is compared
append_if_free_swapped(q, proposal, tail, tailBurned) ==
    IF capacity(q) = 0
    THEN [err |-> "Panic", q |-> q, cursor |-> q.head]
    ELSE IF is_full(q)
    THEN IF tail = None
         THEN [err |-> "TailProposalNotProvided", q |-> q, cursor |-> q.head]
         ELSE IF ~tailBurned
         THEN [err |-> "ProposalNotBurned", q |-> q, cursor |-> q.head]
         ELSE IF get_tail(q) # tail
         THEN [err |-> "InvalidTailProposal", q |-> q, cursor |-> q.head]
         ELSE [err |-> "Ok",
               q |-> Insert([q EXCEPT !.tail = q.tail + 1], proposal),
               cursor |-> q.head]
    ELSE [err |-> "Ok", q |-> Insert(q, proposal), cursor |-> q.head]

\* mutant: a supplied tail entry that is burned is evicted even when the
\* queue is not full
append_if_free_eager(q, proposal, tail, tailBurned) ==
    IF capacity(q) = 0
    THEN [err |-> "Panic", q |-> q, cursor |-> q.head]
    ELSE IF is_full(q)
    THEN IF tail = None
         THEN [err |-> "TailProposalNotProvided", q |-> q, cursor |-> q.head]
         ELSE IF get_tail(q) # tail
         THEN [err |-> "InvalidTailProposal", q |-> q, cursor |-> q.head]
         ELSE IF ~tailBurned
         THEN [err |-> "ProposalNotBurned", q |-> q, cursor |-> q.head]
         ELSE [err |-> "Ok",
               q |-> Insert([q EXCEPT !.tail = q.tail + 1], proposal),
               cursor |-> q.head]
    ELSE IF tail # None /\ get_tail(q) = tail /\ tailBurned /\ q.head > q.tail
    THEN [err |-> "Ok",
          q |-> Insert([q EXCEPT !.tail = q.tail + 1], proposal),
          cursor |-> q.head]
    ELSE [err |-> "Ok", q |-> Insert(q, proposal), cursor |-> q.head]

\* append_if_free(proposal, clock, tail_proposal): tail is the key of the
\* supplied tail account (None when absent) and tailBurned the value of its
\* burned(clock).  The result holds the error, the queue as the function
\* leaves it and the cursor it returns.
append_if_free(q, proposal, tail, tailBurned) ==
    IF capacity(q) = 0
    THEN [err |-> "Panic", q |-> q, cursor |-> q.head]
    ELSE IF is_full(q)
    THEN IF tail = None
         THEN [err |-> "TailProposalNotProvided", q |-> q, cursor |-> q.head]
         ELSE IF get_tail(q) # tail
         THEN [err |-> "InvalidTailProposal", q |-> q, cursor |-> q.head]
         ELSE IF ~tailBurned
         THEN [err |-> "ProposalNotBurned", q |-> q, cursor |-> q.head]
         ELSE [err |-> "Ok",
               q |-> Insert([q EXCEPT !.tail = q.tail + 1], proposal),
               cursor |-> q.head]
    ELSE [err |-> "Ok", q |-> Insert(q, proposal), cursor |-> q.head]

\* ---------------------------------------------------------------- accounts
NoGovernor == [init |-> FALSE, time |-> 0]

NoPoll == [init |-> FALSE, end_ts |-> 0, vote_weights |-> <<>>]

NoProposal == [init |-> FALSE, end_ts |-> 0, vote_yes |-> 0, vote_no |-> 0, burned |-> FALSE]

\* mutant: a poll counts as burned at its end_ts already
PollBurned_at(poll, clock) == poll.end_ts <= clock

\* impl Burnable for Poll
PollBurned(poll, clock) == poll.end_ts < clock

\* impl Burnable for Proposal
ProposalBurned(proposal, clock) == proposal.burned

\* ---------------------------------------------------------------- last call
NoCall == [op |-> "none", err |-> "Ok", id |-> 0, tail |-> None,
           h0 |-> 0, t0 |-> 0, dirty |-> FALSE, evicted |-> None,
           replay |-> FALSE, b0 |-> FALSE, member |-> 0, arg |-> 0, auth |-> FALSE,
           key |-> <<0, 0>>]

Call(op, err, id) == [NoCall EXCEPT !.op = op, !.err = err, !.id = id]

\* ---------------------------------------------------------------- Init
Init ==
    /\ now = 0
    /\ governor = NoGovernor
    /\ poll_q = EmptyQueue
    /\ proposal_q = EmptyQueue
    /\ polls = [p \in PollIds |-> NoPoll]
    /\ proposals = [p \in ProposalIds |-> NoProposal]
    /\ votes = [m \in Members |-> [p \in PollIds |-> "none"]]
    /\ stake = [m \in Members |-> [spt |-> U64(m), spt_locked |-> U64(1)]]
    /\ accepted = [m \in Members |-> [p \in PollIds |-> 0]]
    /\ pvoters = [p \in ProposalIds |-> {}]
    /\ ballots = [p \in PollIds |-> EmptyBag]
    /\ replays = [p \in ProposalIds |-> 0]
    /\ last = NoCall

\* ---------------------------------------------------------------- clock
Tick ==
    /\ now < MaxTime
    /\ now' = now + 1
    /\ last' = Call("tick", "Ok", 0)
    /\ UNCHANGED <<governor, poll_q, proposal_q, polls, proposals, votes, stake, pvoters, ballots, accepted, replays>>

\* ---------------------------------------------------------------- create_governor
\* The governor and both queues are #[account(init)]: the call is accepted
\* once per governor account.
CreateGovernor(time, q_len) ==
    /\ ~governor.init
    /\ governor' = [init |-> TRUE, time |-> time]
    /\ poll_q' = Resize(poll_q, q_len)
    /\ proposal_q' = Resize(proposal_q, q_len)
    /\ last' = [Call("create_governor", "Ok", 0) EXCEPT !.arg = q_len]
    /\ UNCHANGED <<now, polls, proposals, votes, stake, pvoters, ballots, accepted, replays>>

\* ---------------------------------------------------------------- create_poll
\* poll is the account to initialise, tail the account passed in
\* remaining_accounts[0] (an initialised Poll) or None.
CreatePoll(poll, end_ts, n_options, tail) ==
    /\ governor.init
    /\ tail # None => polls[tail].init
    /\ LET r == append_if_free(poll_q, poll, tail,
                               IF tail = None THEN FALSE ELSE PollBurned(polls[tail], now))
           err == IF polls[poll].init THEN "InitFailed" ELSE r.err
           call == [Call("create_poll", err, poll) EXCEPT
                       !.tail = tail, !.h0 = poll_q.head, !.t0 = poll_q.tail,
                       !.dirty = (~polls[poll].init /\ r.err # "Ok" /\ r.q # poll_q),
                       !.evicted = IF err = "Ok" /\ r.q.tail # poll_q.tail
                                   THEN get_tail(poll_q) ELSE None,
                       !.arg = r.cursor]
       IN /\ last' = call
          /\ IF err = "Ok"
             THEN /\ polls' = [polls EXCEPT ![poll] =
                        [init |-> TRUE, end_ts |-> end_ts,
                         vote_weights |-> [i \in 1..n_options |-> U64(0)]]]
                  /\ poll_q' = r.q
             ELSE UNCHANGED <<polls, poll_q>>
    /\ UNCHANGED <<now, governor, proposal_q, proposals, votes, stake, pvoters, ballots, accepted, replays>>

\* ---------------------------------------------------------------- create_proposal
\* end_ts is clock + governor.time; vote_yes, vote_no and burned keep the
\* zero bytes of the fresh account.
CreateProposal(proposal, tail) ==
    /\ governor.init
    /\ tail # None => proposals[tail].init
    /\ LET r == append_if_free(proposal_q, proposal, tail,
                               IF tail = None THEN FALSE
                               ELSE ProposalBurned(proposals[tail], now))
           err == IF proposals[proposal].init THEN "InitFailed" ELSE r.err
           call == [Call("create_proposal", err, proposal) EXCEPT
                       !.tail = tail, !.h0 = proposal_q.head, !.t0 = proposal_q.tail,
                       !.dirty = (~proposals[proposal].init /\ r.err # "Ok"
                                  /\ r.q # proposal_q),
                       !.evicted = IF err = "Ok" /\ r.q.tail # proposal_q.tail
                                   THEN get_tail(proposal_q) ELSE None,
                       !.arg = r.cursor]
       IN /\ last' = call
          /\ IF err = "Ok"
             THEN /\ proposals' = [proposals EXCEPT ![proposal] =
                        [NoProposal EXCEPT !.init = TRUE,
                                           !.end_ts = now + governor.time]]
                  /\ proposal_q' = r.q
             ELSE UNCHANGED <<proposals, proposal_q>>
    /\ UNCHANGED <<now, governor, poll_q, polls, votes, stake, pvoters, ballots, accepted, replays>>

\* ---------------------------------------------------------------- account init
\* #[account(init)]: the account must not have been written before
AccountInit(state) == IF state = "none" THEN "Ok" ELSE "InitFailed"

\* ---------------------------------------------------------------- guards
poll_active(clock, poll) ==
    IF clock < poll.end_ts THEN "VotingIsOver" ELSE "Ok"

poll_over(clock, poll) ==
    IF clock >= poll.end_ts THEN "VotingIsOver" ELSE "Ok"

proposal_active(clock, proposal) ==
    IF clock < proposal.end_ts THEN "VotingIsOver" ELSE "Ok"

\* mutant: the comparison of proposal_over the other way round
proposal_over_flipped(clock, proposal) ==
    IF clock < proposal.end_ts THEN "VotingIsOver" ELSE "Ok"

proposal_over(clock, proposal) ==
    IF clock >= proposal.end_ts THEN "VotingIsOver" ELSE "Ok"

\* ---------------------------------------------------------------- vote_proposal
\* The vote account is #[account(init)] with no constraint on its address:
\* the caller supplies any fresh account.
vote_proposal(proposal, clock, yes) ==
    IF proposal_active(clock, proposal) # "Ok"
    THEN [err |-> proposal_active(clock, proposal), proposal |-> proposal]
    ELSE [err |-> "Ok",
          proposal |-> IF yes THEN [proposal EXCEPT !.vote_yes = @ + 1]
                              ELSE [proposal EXCEPT !.vote_no = @ + 1]]

\* fresh: the vote account supplied was never written (any new account
\* will do); otherwise it is an account that has been written before
VoteProposal(member, id, yes, fresh) ==
    /\ proposals[id].init
    /\ proposals[id].vote_yes + proposals[id].vote_no < MaxVotes
    /\ LET e1 == AccountInit(IF fresh THEN "none" ELSE "init")
           r == vote_proposal(proposals[id], now, yes)
           err == IF e1 # "Ok" THEN e1 ELSE r.err
       IN /\ last' = [Call("vote_proposal", err, id) EXCEPT
                         !.member = member, !.arg = IF yes THEN 1 ELSE 0,
                         !.b0 = proposals[id].burned]
          /\ IF err = "Ok"
             THEN /\ proposals' = [proposals EXCEPT ![id] = r.proposal]
                  /\ pvoters' = [pvoters EXCEPT ![id] = @ \cup {member}]
             ELSE UNCHANGED <<proposals, pvoters, ballots>>
    /\ UNCHANGED <<now, governor, poll_q, proposal_q, polls, votes, stake, accepted, ballots,
                   replays>>

\* ---------------------------------------------------------------- execute_proposal
\* (adjusted / total_votes) > 60 with adjusted = vote_yes * 100
Passes(proposal) ==
    LET total_votes == proposal.vote_yes + proposal.vote_no
    IN  total_votes # 0 /\ ((proposal.vote_yes * 100) \div total_votes) > 60

\* mutant: the deadline is left to the guard alone
execute_proposal_unchecked(proposal, clock, replay_ok) ==
    IF proposal_over(clock, proposal) # "Ok"
    THEN [err |-> proposal_over(clock, proposal), proposal |-> proposal, replay |-> FALSE]
    ELSE IF proposal.burned
    THEN [err |-> "ProposalBurned", proposal |-> proposal, replay |-> FALSE]
    ELSE IF Passes(proposal) /\ ~replay_ok
    THEN [err |-> "ReplayFailed", proposal |-> proposal, replay |-> TRUE]
    ELSE [err |-> "Ok", proposal |-> [proposal EXCEPT !.burned = TRUE],
          replay |-> Passes(proposal)]

\* replay_ok: whether invoke_signed in execute_transaction returns Ok.
\* The result holds the error, the proposal as the call leaves it and
\* whether execute_transaction was invoked.
execute_proposal(proposal, clock, replay_ok) ==
    IF proposal_over(clock, proposal) # "Ok"
    THEN [err |-> proposal_over(clock, proposal), proposal |-> proposal, replay |-> FALSE]
    ELSE IF proposal.burned
    THEN [err |-> "ProposalBurned", proposal |-> proposal, replay |-> FALSE]
    ELSE IF clock < proposal.end_ts
    THEN [err |-> "VotingPeriodActive", proposal |-> proposal, replay |-> FALSE]
    ELSE IF Passes(proposal) /\ ~replay_ok
    THEN [err |-> "ReplayFailed", proposal |-> proposal, replay |-> TRUE]
    ELSE [err |-> "Ok", proposal |-> [proposal EXCEPT !.burned = TRUE],
          replay |-> Passes(proposal)]

ExecuteProposal(id, replay_ok) ==
    /\ proposals[id].init
    /\ LET r == execute_proposal(proposals[id], now, replay_ok)
       IN /\ last' = [Call("execute_proposal", r.err, id) EXCEPT
                         !.replay = r.replay, !.b0 = proposals[id].burned]
          /\ proposals' = [proposals EXCEPT ![id] = r.proposal]
          /\ replays' = [replays EXCEPT ![id] = IF r.replay THEN @ + 1 ELSE @]
    /\ UNCHANGED <<now, governor, poll_q, proposal_q, polls, votes, stake, pvoters, ballots, accepted>>

\* ---------------------------------------------------------------- vote accounts
\* The Vote account of a member on a poll lives at the address derived from
\* the two, <<member, poll>>: "none" when no account is there (the voter
\* creates it, zeroed, in the transaction that votes), "init" once vote_poll
\* has written it (its member and account are then those of the address).
\* OtherKey is the address of a fresh account that is not a derived one.
OtherKey == <<0, 0>>

VoteState(key) == IF key = OtherKey THEN "none" ELSE votes[key[1]][key[2]]

\* an account whose lamports are zero at the end of the transaction is
\* removed, and its address is free again
Reclaim(state) == "none"

\* ---------------------------------------------------------------- vote_poll
\* mutant: the selector may equal the number of options
VotePollAccounts_loose(member, id, vote_key, poll, selector) ==
    IF <<member, id>> # vote_key THEN "InvalidVoteAddress"
    ELSE IF selector > Len(poll.vote_weights) THEN "InvalidPollOption"
    ELSE "Ok"

\* VotePoll::accounts: expected_vote is derived from the member and the poll
VotePollAccounts(member, id, vote_key, poll, selector) ==
    IF <<member, id>> # vote_key THEN "InvalidVoteAddress"
    ELSE IF selector >= Len(poll.vote_weights) THEN "InvalidPollOption"
    ELSE "Ok"

\* The body: both additions are unchecked.  checks: the program was built
\* with overflow checks, and an addition that overflows panics; without them
\* it wraps.
\* Indexing vote_weights out of its bounds panics.
vote_poll(poll, selector, spt, spt_locked, checks) ==
    IF selector >= Len(poll.vote_weights)
    THEN [err |-> "Panic", poll |-> poll]
    ELSE LET weight == wrapping_add(spt, spt_locked)
             over == overflows(spt, spt_locked)
                       \/ overflows(poll.vote_weights[selector + 1], weight)
         IN IF over /\ checks
            THEN [err |-> "Panic", poll |-> poll]
            ELSE [err |-> "Ok",
                  poll |-> [poll EXCEPT !.vote_weights[selector + 1] =
                                            wrapping_add(@, weight)]]

VotePoll(member, id, vote_key, selector, checks) ==
    /\ polls[id].init
    /\ accepted[member][id] < MaxAccepted
    /\ LET e1 == AccountInit(VoteState(vote_key))
           e2 == VotePollAccounts(member, id, vote_key, polls[id], selector)
           e3 == poll_active(now, polls[id])
           r == vote_poll(polls[id], selector, stake[member].spt, stake[member].spt_locked,
                          checks)
           err == IF e1 # "Ok" THEN e1 ELSE IF e2 # "Ok" THEN e2
                  ELSE IF e3 # "Ok" THEN e3 ELSE r.err
       IN /\ last' = [Call("vote_poll", err, id) EXCEPT
                         !.member = member, !.arg = selector, !.key = vote_key]
          /\ IF err = "Ok"
             THEN /\ votes' = [votes EXCEPT ![member][id] = "init"]
                  /\ polls' = [polls EXCEPT ![id] = r.poll]
                  /\ accepted' = [accepted EXCEPT ![member][id] = @ + 1]
                  /\ ballots' = [ballots EXCEPT ![id] = @ (+) SetToBag(
                        {<<selector, stake[member].spt, stake[member].spt_locked>>})]
             ELSE UNCHANGED <<votes, polls, accepted, ballots>>
    /\ UNCHANGED <<now, governor, poll_q, proposal_q, proposals, stake, pvoters, replays>>

\* ---------------------------------------------------------------- registry
\* the balances of a member's two pool-token accounts change as the member
\* stakes and unstakes with the registry program
Amounts == {U64(1), U64Top, U64Max}

SetStake(member, spt, spt_locked) ==
    /\ stake' = [stake EXCEPT ![member] = [spt |-> spt, spt_locked |-> spt_locked]]
    /\ last' = [Call("stake", "Ok", 0) EXCEPT !.member = member]
    /\ UNCHANGED <<now, governor, poll_q, proposal_q, polls, proposals, votes, accepted,
                   pvoters, ballots, replays>>

\* ---------------------------------------------------------------- close_vote
\* CloseVote: vote has_one member, member has_one beneficiary and the
\* beneficiary signs (auth: the member account supplied is the one the vote
\* records and its beneficiary signed); poll is any Poll account.
CloseVoteAccounts(state, auth) ==
    IF state # "init" THEN "AccountNotInitialized"
    ELSE IF ~auth THEN "ConstraintHasOne"
    ELSE "Ok"

\* the lamports a vote account holds, its rent deposit
vote_lamports == U64(1)

\* The body: the lamports of the vote account go to `to`, with checked_add
close_vote(to_lamports) ==
    IF overflows(to_lamports, vote_lamports)
    THEN [err |-> "Overflow", to |-> to_lamports, vote |-> vote_lamports]
    ELSE [err |-> "Ok", to |-> wrapping_add(to_lamports, vote_lamports), vote |-> U64(0)]

\* vm, vp: the vote account, the one member vm used on poll vp; id: the
\* poll account supplied; to_lamports: the balance of the destination
CloseVote(vm, vp, id, auth, to_lamports) ==
    /\ polls[id].init
    /\ LET e1 == CloseVoteAccounts(votes[vm][vp], auth)
           e2 == poll_over(now, polls[id])
           r == close_vote(to_lamports)
           err == IF e1 # "Ok" THEN e1 ELSE IF e2 # "Ok" THEN e2 ELSE r.err
       IN /\ last' = [Call("close_vote", err, id) EXCEPT
                         !.member = vm, !.arg = vp, !.auth = auth]
          /\ IF err = "Ok"
             THEN votes' = [votes EXCEPT ![vm][vp] = IF r.vote = U64(0) THEN Reclaim(@) ELSE @]
             ELSE UNCHANGED votes
    /\ UNCHANGED <<now, governor, poll_q, proposal_q, polls, proposals, stake, pvoters, ballots,
                   accepted, replays>>

NextPoll ==
    \/ Tick
    \/ \E time \in {1}, q_len \in {MaxQLen} : CreateGovernor(time, q_len)
    \/ \E poll \in VotePollIds, end_ts \in {1, MaxTime} :
           CreatePoll(poll, end_ts, MaxOptions, None)
    \/ \E member \in Members, id \in VotePollIds, own \in BOOLEAN, selector \in 0..MaxOptions,
          checks \in BOOLEAN :
           VotePoll(member, id, IF own THEN <<member, id>> ELSE OtherKey, selector, checks)
    \/ \E vm \in Members, vp \in VotePollIds, id \in VotePollIds, auth \in BOOLEAN,
          to_lamports \in {U64(0), U64Max} :
           CloseVote(vm, vp, id, auth, to_lamports)

SpecPoll == Init /\ [][NextPoll]_vars

NextProposal ==
    \/ Tick
    \/ \E time \in {1, 2}, q_len \in {MaxQLen} : CreateGovernor(time, q_len)
    \/ \E proposal \in ProposalIds, tail \in ProposalIds \cup {None} :
           CreateProposal(proposal, tail)
    \/ \E member \in {1}, id \in ProposalIds, yes \in BOOLEAN, fresh \in BOOLEAN :
           VoteProposal(member, id, yes, fresh)
    \/ \E id \in ProposalIds, replay_ok \in BOOLEAN : ExecuteProposal(id, replay_ok)

SpecProposal == Init /\ [][NextProposal]_vars

\* The clock keeps advancing, execute_proposal is retried on every proposal
\* with a replay that succeeds, and create_proposal is retried with every
\* tail account.
FairProposal ==
    /\ WF_vars(Tick)
    /\ \A id \in ProposalIds : WF_vars(ExecuteProposal(id, TRUE))
    /\ \A proposal \in ProposalIds, tail \in ProposalIds \cup {None} :
           WF_vars(CreateProposal(proposal, tail))

SpecProposalFair == SpecProposal /\ FairProposal

\* one proposal, every member voting on it
NextVote ==
    \/ Tick
    \/ \E time \in {1, 2}, q_len \in {MaxQLen} : CreateGovernor(time, q_len)
    \/ \E tail \in {None} : CreateProposal(1, tail)
    \/ \E member \in Members, yes \in BOOLEAN, fresh \in BOOLEAN :
           VoteProposal(member, 1, yes, fresh)
    \/ \E replay_ok \in BOOLEAN : ExecuteProposal(1, replay_ok)

SpecVote == Init /\ [][NextVote]_vars

\* one poll with at least two options, the members' balances changing
\* between the votes
NextTally ==
    \/ Tick
    \/ \E time \in {1}, q_len \in {MaxQLen} : CreateGovernor(time, q_len)
    \/ \E end_ts \in {0} : CreatePoll(1, end_ts, MaxOptions + 1, None)
    \/ \E member \in Members, spt \in Amounts, spt_locked \in Amounts :
           SetStake(member, spt, spt_locked)
    \/ \E member \in Members, selector \in 0..MaxOptions, checks \in BOOLEAN :
           VotePoll(member, 1, <<member, 1>>, selector, checks)

SpecTally == Init /\ [][NextTally]_vars

\* polls with any number of options from none, voted on with every selector
NextOption ==
    \/ Tick
    \/ \E time \in {1}, q_len \in {MaxQLen} : CreateGovernor(time, q_len)
    \/ \E poll \in VotePollIds, end_ts \in {0, 1}, n_options \in 0..MaxOptions :
           CreatePoll(poll, end_ts, n_options, None)
    \/ \E member \in Members, id \in VotePollIds, own \in BOOLEAN, selector \in 0..MaxOptions,
          checks \in BOOLEAN :
           VotePoll(member, id, IF own THEN <<member, id>> ELSE OtherKey, selector, checks)

SpecOption == Init /\ [][NextOption]_vars

NextQueue ==
    \/ Tick
    \/ \E time \in {0}, q_len \in 0..MaxQLen : CreateGovernor(time, q_len)
    \/ \E poll \in PollIds, end_ts \in {0, MaxTime - 1}, tail \in PollIds \cup {None} :
           CreatePoll(poll, end_ts, 1, tail)
    \/ \E proposal \in ProposalIds, tail \in ProposalIds \cup {None} :
           CreateProposal(proposal, tail)

SpecQueue == Init /\ [][NextQueue]_vars

\* ================================================================ properties
Creates == {"create_poll", "create_proposal"}

QueueErrors == {"TailProposalNotProvided", "InvalidTailProposal", "ProposalNotBurned"}

\* the queue the last create_poll or create_proposal call worked on
QueueOf(op) == IF op = "create_poll" THEN poll_q ELSE proposal_q

\* the last call ran append_if_free on a queue that has slots
Appended == last.op \in Creates /\ last.err \notin {"InitFailed", "Panic"}

\* the last call was execute_proposal at or after the deadline of its proposal
ExecutedAfterDeadline ==
    last.op = "execute_proposal" /\ now >= proposals[last.id].end_ts

\* floor(vote_yes * 100 / (vote_yes + vote_no)) > 60, with at least one vote
AboveThreshold(yes, no) == yes + no > 0 /\ (yes * 100) \div (yes + no) > 60

Claim_C2 ==
    (/\ ExecutedAfterDeadline
     /\ ~last.b0
     /\ proposals[last.id].vote_yes = 0
     /\ proposals[last.id].vote_no = 0)
    => (last.err = "Ok" /\ proposals[last.id].burned /\ ~last.replay)

\* C3: an execute_proposal call made at now >= end_ts on an unburned proposal
\* replays the deferred transaction if and only if vote_yes + vote_no > 0 and
\* floor(vote_yes*100 / (vote_yes+vote_no)) > 60.
Claim_C3 ==
    (ExecutedAfterDeadline /\ ~last.b0)
    => (last.replay <=>
           AboveThreshold(proposals[last.id].vote_yes, proposals[last.id].vote_no))

\* C4: of two execute_proposal calls made after the deadline, the first sets
\* burned = true, and the second (on the burned proposal) fails with
\* ProposalBurned, replays nothing and leaves the proposal burned.
Claim_C4 ==
    ExecutedAfterDeadline =>
        IF last.b0
        THEN last.err = "ProposalBurned" /\ ~last.replay /\ proposals[last.id].burned
        ELSE last.err # "ReplayFailed" => proposals[last.id].burned

\* the entry a queue holds in the slot of a counter
EntryAt(q, counter) == q.proposals[(counter % Len(q.proposals)) + 1]

\* (head + 1) mod capacity = tail mod capacity
QueueFull(q) ==
    Len(q.proposals) > 0 /\ (q.head + 1) % Len(q.proposals) = q.tail % Len(q.proposals)

\* the last call ran append_if_free with no tail entry on a queue that has
\* never evicted: last.h0 appends have succeeded on it since it was created
AppendedNoTail == Appended /\ last.tail = None /\ last.t0 = 0

\* C5 as stated: from the empty queue of capacity C >= 1, C consecutive
\* append_if_free calls without a tail entry succeed and the (C+1)-th fails
\* with TailProposalNotProvided.
Claim_C5 ==
    AppendedNoTail =>
        LET C == capacity(QueueOf(last.op))
        IN  /\ last.h0 < C => last.err = "Ok"
            /\ last.h0 >= C => last.err = "TailProposalNotProvided"

\* C5 amended: from the empty queue of capacity C >= 1, C - 1 consecutive
\* append_if_free calls without a tail entry succeed and the C-th fails with
\* TailProposalNotProvided.
Thm_C5 ==
    AppendedNoTail =>
        LET C == capacity(QueueOf(last.op))
        IN  /\ last.h0 < C - 1 => last.err = "Ok"
            /\ last.h0 >= C - 1 => last.err = "TailProposalNotProvided"

\* C5 witness: on a queue of capacity C >= 2 the C-th append without a tail
\* entry has just failed
Wit_C5 ==
    /\ AppendedNoTail
    /\ capacity(QueueOf(last.op)) >= 2
    /\ last.h0 = capacity(QueueOf(last.op)) - 1
    /\ last.err = "TailProposalNotProvided"

\* C6: an append_if_free call that fails with TailProposalNotProvided,
\* InvalidTailProposal or ProposalNotBurned leaves head, tail and every slot
\* of the queue as they were before the call.
Thm_C6 ==
    (last.op \in Creates /\ last.err \in QueueErrors) =>
        /\ ~last.dirty
        /\ QueueOf(last.op).head = last.h0
        /\ QueueOf(last.op).tail = last.t0

\* C6 witness: an append was refused because the supplied tail entry, the
\* one in the tail slot, is not expired
Wit_C6 ==
    /\ last.op \in Creates
    /\ last.err = "ProposalNotBurned"
    /\ EntryAt(QueueOf(last.op), last.t0) = last.tail

\* C7: whenever the tail of a queue moves, it moves by one, past the entry in
\* the slot of the old tail, and that entry is expired at that moment: a poll
\* with end_ts < now, a proposal with burned = true.
Thm_C7 ==
    [][/\ poll_q'.tail # poll_q.tail =>
            /\ poll_q'.tail = poll_q.tail + 1
            /\ EntryAt(poll_q, poll_q.tail) \in PollIds
            /\ polls[EntryAt(poll_q, poll_q.tail)].init
            /\ polls[EntryAt(poll_q, poll_q.tail)].end_ts < now
       /\ proposal_q'.tail # proposal_q.tail =>
            /\ proposal_q'.tail = proposal_q.tail + 1
            /\ EntryAt(proposal_q, proposal_q.tail) \in ProposalIds
            /\ proposals[EntryAt(proposal_q, proposal_q.tail)].burned]_vars

\* C7 witness: create_poll has just evicted a poll from the poll queue
Wit_C7 ==
    /\ last.op = "create_poll"
    /\ last.err = "Ok"
    /\ last.evicted \in PollIds
    /\ polls[last.evicted].end_ts < now

\* whether the tail entry supplied to a create call is expired
TailExpired(op, tail) ==
    IF op = "create_poll" THEN polls[tail].end_ts < now ELSE proposals[tail].burned

\* the outcome C8 requires of an append of entry id to the full queue q
\* that leaves it as q1
FullOutcome(op, q, q1, id, tail, err) ==
    IF tail = None THEN err = "TailProposalNotProvided"
    ELSE IF EntryAt(q, q.tail) # tail THEN err = "InvalidTailProposal"
    ELSE IF ~TailExpired(op, tail) THEN err = "ProposalNotBurned"
    ELSE /\ err = "Ok"
         /\ q1.tail = q.tail + 1
         /\ q1.head = q.head + 1
         /\ EntryAt(q1, q.head) = id

\* C8: on a full queue append_if_free returns TailProposalNotProvided without
\* a tail entry, InvalidTailProposal for an entry that is not the one in the
\* tail slot, ProposalNotBurned for the right entry when it is not expired,
\* and otherwise succeeds with tail + 1, head + 1 and the new entry written
\* in the slot of the old head.
Thm_C8 ==
    [][/\ (last'.op = "create_poll" /\ last'.err # "InitFailed" /\ QueueFull(poll_q)) =>
            FullOutcome("create_poll", poll_q, poll_q', last'.id, last'.tail, last'.err)
       /\ (last'.op = "create_proposal" /\ last'.err # "InitFailed"
             /\ QueueFull(proposal_q)) =>
            FullOutcome("create_proposal", proposal_q, proposal_q',
                        last'.id, last'.tail, last'.err)]_vars

\* C8 witness: an append to a full queue of capacity C >= 2 has succeeded by
\* evicting the tail entry
Wit_C8 ==
    /\ last.op \in Creates
    /\ last.err = "Ok"
    /\ last.evicted = last.tail
    /\ capacity(QueueOf(last.op)) >= 2
    /\ QueueOf(last.op).tail = last.t0 + 1
    /\ QueueOf(last.op).head = last.h0 + 1
    /\ EntryAt(QueueOf(last.op), last.h0) = last.id

\* index_of(head) and index_of(tail) lie in [0, C)
InRange(q) ==
    /\ capacity(q) > 0
    /\ q.head % capacity(q) \in 0..(capacity(q) - 1)
    /\ q.tail % capacity(q) \in 0..(capacity(q) - 1)

\* C9: in every reachable state of every queue the capacity is the q_len
\* given to create_governor, no later call changes it, and index_of(head)
\* and index_of(tail) lie in [0, capacity).
Claim_C9 ==
    /\ [](governor.init => InRange(poll_q) /\ InRange(proposal_q))
    /\ [][(last'.op = "create_governor" =>
              (capacity(poll_q') = last'.arg /\ capacity(proposal_q') = last'.arg))
          /\ (governor.init =>
              (capacity(poll_q') = capacity(poll_q)
               /\ capacity(proposal_q') = capacity(proposal_q)))]_vars

\* C10: no member has two accepted votes on the same poll.
Claim_C10 == \A m \in Members, p \in PollIds : accepted[m][p] <= 1

\* C11: no member has two accepted votes on the same proposal: vote_yes +
\* vote_no never exceeds the number of distinct members that voted on it.
Claim_C11 ==
    \A p \in ProposalIds :
        proposals[p].vote_yes + proposals[p].vote_no <= Cardinality(pvoters[p])

\* the last call was vote_poll and passed the account checks: the vote
\* account was fresh and at the derived address, the selector named an option
ValidVotePoll ==
    /\ last.op = "vote_poll"
    /\ last.err \notin {"InitFailed", "InvalidVoteAddress", "InvalidPollOption"}

\* C12: on a poll with end_ts = T a valid vote_poll made before T is accepted,
\* and every vote_poll made at or after T is rejected with VotingIsOver.
Claim_C12 ==
    ValidVotePoll =>
        IF now < polls[last.id].end_ts THEN last.err = "Ok" ELSE last.err = "VotingIsOver"

\* C13: vote_proposal is accepted only while the proposal is open (now <=
\* end_ts and not burned); a call made after the deadline is rejected with
\* VotingIsOver.
Claim_C13 ==
    last.op = "vote_proposal" =>
        /\ last.err = "Ok" => (now <= proposals[last.id].end_ts /\ ~last.b0)
        /\ (now > proposals[last.id].end_ts /\ last.err # "InitFailed")
              => last.err = "VotingIsOver"

\* Sums of balances are taken in the integers, on numbers of six limbs.
WideLimbs == U64Limbs + 2

Wide(a) == a \o [i \in 1..(WideLimbs - Len(a)) |-> 0]

AddWide(a, b) == SubSeq(AddCarry(a, b, 0), 1, WideLimbs)

RECURSIVE Times(_, _)
Times(a, n) == IF n = 0 THEN Wide(<<>>) ELSE AddWide(a, Times(a, n - 1))

\* the free + locked balance a ballot was cast with
Balance(b) == Wide(AddCarry(b[2], b[3], 0))

\* the sum of the balances of the ballots of S, each as often as it is in bag
RECURSIVE SumBallots(_, _)
SumBallots(bag, S) ==
    IF S = {} THEN Wide(<<>>)
    ELSE LET b == CHOOSE x \in S : TRUE
         IN AddWide(Times(Balance(b), CopiesIn(b, bag)), SumBallots(bag, S \ {b}))

RECURSIVE SumWeights(_)
SumWeights(w) == IF w = <<>> THEN Wide(<<>>) ELSE AddWide(Wide(Head(w)), SumWeights(Tail(w)))

\* C14: the entries of vote_weights sum to the free + locked balances the
\* accepted votes were cast with, and each entry is the sum of the balances
\* of the bag of ballots for its option, whatever order they came in.
Claim_C14 ==
    \A p \in PollIds :
        /\ SumWeights(polls[p].vote_weights) = SumBallots(ballots[p], BagToSet(ballots[p]))
        /\ \A i \in 1..Len(polls[p].vote_weights) :
               Wide(polls[p].vote_weights[i])
                 = SumBallots(ballots[p], {b \in BagToSet(ballots[p]) : b[1] = i - 1})

\* C15: close_vote succeeds only while the poll supplied is closed (now >
\* end_ts) and the recorded voter authorises it; a call made while the poll
\* is open (now <= end_ts) fails.
Claim_C15 ==
    last.op = "close_vote" =>
        /\ last.err = "Ok" => (now > polls[last.id].end_ts /\ last.auth)
        /\ now <= polls[last.id].end_ts => last.err # "Ok"

\* C19: close_vote never succeeds for a vote account whose recorded poll
\* (vote.account) is still within its voting window, now <= end_ts,
\* whichever poll account the caller supplies.
Claim_C19 ==
    (last.op = "close_vote" /\ last.err = "Ok") => now > polls[last.arg].end_ts

\* the step is an execute_proposal call made before the deadline of a
\* proposal that is not burned
ExecutesEarly ==
    /\ last'.op = "execute_proposal"
    /\ now' < proposals[last'.id].end_ts
    /\ ~last'.b0

\* C16: execute_proposal before the deadline (now < end_ts) on a proposal
\* that is not burned fails with VotingPeriodActive, replays nothing and
\* leaves burned, vote_yes and vote_no as they were.
Thm_C16 ==
    [][ExecutesEarly =>
          /\ last'.err = "VotingPeriodActive"
          /\ ~last'.replay
          /\ replays' = replays
          /\ proposals' = proposals]_vars

Wit_C16 ==
    /\ last.op = "execute_proposal"
    /\ now < proposals[last.id].end_ts
    /\ ~last.b0
    /\ last.err = "VotingPeriodActive"
    /\ ~proposals[last.id].burned

\* C18: with the clock advancing and execute_proposal retried, every
\* proposal eventually reaches burned = TRUE, so that a full proposal queue
\* can evict its tail and is never blocked for good.  (The clock of the
\* model stops at MaxTime: only the deadlines it reaches are spoken of.)
Claim_C18 ==
    \A p \in ProposalIds :
        (proposals[p].init /\ proposals[p].end_ts <= MaxTime) ~> proposals[p].burned

\* 0 <= head - tail <= C - 1
WithinCapacity(q) == 0 <= q.head - q.tail /\ q.head - q.tail <= capacity(q) - 1

\* the step is a successful append of last'.id that takes queue q to q1: the
\* entries from the new tail up to the old head stay where they are, in
\* order, and the new identifier is written after them
AppendsBehind(q, q1) ==
    /\ \A c \in q1.tail..(q.head - 1) : EntryAt(q1, c) = EntryAt(q, c)
    /\ q1.head = q.head + 1
    /\ EntryAt(q1, q.head) = last'.id

\* C20: in every reachable state of a queue of capacity C, 0 <= head - tail
\* <= C - 1, and the slots index_of(tail) .. index_of(head - 1) hold in
\* admission order the identifiers of the most recent successful appends: a
\* successful append never overwrites an entry that has not been evicted.
Claim_C20 ==
    /\ [](governor.init => WithinCapacity(poll_q) /\ WithinCapacity(proposal_q))
    /\ [][(last'.op \in Creates /\ last'.err = "Ok") =>
             IF last'.op = "create_poll"
             THEN AppendsBehind(poll_q, poll_q')
             ELSE AppendsBehind(proposal_q, proposal_q')]_vars

\* the step is a create call of last'.id whose append_if_free found queue q,
\* of capacity C > 0, not full; it leaves the queue as q1: the call
\* succeeds, the identifier is written at index_of(head), head grows by one,
\* the cursor returned is the old head, tail and the other slots stay
AppendsFree(q, q1) ==
    (last'.err \notin {"InitFailed", "Panic"} /\ ~QueueFull(q)) =>
        /\ last'.err = "Ok"
        /\ last'.arg = q.head
        /\ q1.head = q.head + 1
        /\ q1.tail = q.tail
        /\ q1.proposals = [q.proposals EXCEPT ![index_of(q, q.head) + 1] = last'.id]

\* C21: when the queue is not full, append_if_free writes the new entry at
\* index_of(head), increments head, returns the old head as the cursor and
\* leaves tail and every other slot unchanged, whether or not a tail entry
\* was supplied: a supplied tail entry is ignored and not evicted.
Thm_C21 ==
    [][/\ last'.op = "create_poll" => AppendsFree(poll_q, poll_q')
       /\ last'.op = "create_proposal" => AppendsFree(proposal_q, proposal_q')]_vars

\* a poll was appended to a queue that was not full while its tail entry,
\* expired, was supplied: the entry is still in the queue
Wit_C21 ==
    /\ last.op = "create_poll"
    /\ last.err = "Ok"
    /\ (last.h0 + 1) % capacity(poll_q) # last.t0 % capacity(poll_q)
    /\ last.tail # None
    /\ last.tail = EntryAt(poll_q, last.t0)
    /\ last.h0 > last.t0
    /\ PollBurned(polls[last.tail], now)
    /\ poll_q.tail = last.t0
    /\ poll_q.head = last.h0 + 1
    /\ last.arg = last.h0

\* the step is a vote_poll call whose selector names no option of the poll
BadSelector ==
    /\ last'.op = "vote_poll"
    /\ last'.arg >= Len(polls[last'.id].vote_weights)

\* the vote account of that call is a new one at the derived address
OwnFreshVote ==
    /\ last'.key = <<last'.member, last'.id>>
    /\ votes[last'.member][last'.id] = "none"

\* C23: a vote_poll call whose selector is not below the number of options
\* (every selector, on a poll without options) fails, with InvalidPollOption
\* when its vote account passes the checks made before the selector is
\* looked at; it creates no accepted vote and leaves vote_weights unchanged.
Thm_C23 ==
    [][BadSelector =>
          /\ last'.err \in {"InitFailed", "InvalidVoteAddress", "InvalidPollOption"}
          /\ OwnFreshVote => last'.err = "InvalidPollOption"
          /\ polls' = polls
          /\ votes' = votes
          /\ accepted' = accepted
          /\ ballots' = ballots]_vars

\* selector 0 was refused on a poll without options, at a clock at which
\* the poll accepts votes
Wit_C23 ==
    /\ last.op = "vote_poll"
    /\ polls[last.id].init
    /\ Len(polls[last.id].vote_weights) = 0
    /\ last.arg = 0
    /\ last.key = <<last.member, last.id>>
    /\ poll_active(now, polls[last.id]) = "Ok"
    /\ last.err = "InvalidPollOption"

\* the step is a vote_poll call that passes every guard and in which free +
\* locked, or the tally of the option plus that sum, exceeds u64::MAX
VoteOverflows ==
    /\ last'.op = "vote_poll"
    /\ last'.err \notin {"InitFailed", "InvalidVoteAddress", "InvalidPollOption",
                         "VotingIsOver"}
    /\ LET spt == stake[last'.member].spt
           spt_locked == stake[last'.member].spt_locked
       IN \/ overflows(spt, spt_locked)
          \/ overflows(polls[last'.id].vote_weights[last'.arg + 1],
                       wrapping_add(spt, spt_locked))

\* C24: arithmetic is checked: a vote_poll call in which free + locked, or
\* vote_weights[selector] + (free + locked), exceeds 2^64 - 1 fails with
\* Overflow and leaves vote_weights unchanged; the tally never wraps.
Claim_C24 ==
    [][VoteOverflows => (last'.err = "Overflow" /\ polls' = polls)]_vars
====
